---------------------------- MODULE Spec2Model ----------------------------
(***************************************************************************)
(* Model of simulador_consorcio.py: a Streamlit script that reads the      *)
(* sidebar widgets and, when "Calcular" is pressed, computes the loan      *)
(* schedules (Price and SAC), the consortium schedule, the totals, the     *)
(* cash flows, VPL, TIR and CET, and the six metric displays.              *)
(*                                                                         *)
(* Numbers.  The script computes in binary floating point; the model       *)
(* computes in exact rational arithmetic, a rational being a pair          *)
(* <<n, d>> in lowest terms with d > 0.  Rounding error is therefore not   *)
(* modelled: "equal" in the model is "equal up to rounding" in the script. *)
(* A float division by zero raises ZeroDivisionError in Python, and the    *)
(* model keeps that.  An annual percentage p enters the script only        *)
(* through (1 + p/100)**(1/12); the model ranges over the percentages      *)
(* whose twelfth root is rational and keeps each as that root              *)
(* ([k |-> "pct12", b |-> q] is the percentage 100*(q^12 - 1)), since      *)
(* q^12 itself does not fit TLC's integers.                                *)
(*                                                                         *)
(* Not modelled: the tables and charts (lines 105-127, 166-182), which     *)
(* only render values the run has already computed, and the widget         *)
(* taxa_gap (line 50), which the script reads and never uses.              *)
(***************************************************************************)
EXTENDS Integers, Sequences, FiniteSets, TLC

VARIABLES
    valor,        \* "Valor Necessario (R$)"            line 38
    entrada,      \* "Entrada (R$)"                     line 39
    juros_ano,    \* "Juros Fin. (% a.a.)"              line 40
    prazo_fin,    \* "Prazo Fin. (meses)"               line 41
    modelo_fin,   \* "Modelo Financiamento"             line 42
    iof_pct,      \* "IOF (% sobre PV)"                 line 44
    seguro_pct,   \* "Seguro (% a.a.)"                  line 45
    prazo_cons,   \* "Prazo Consorcio (meses)"          line 47
    idx_choice,   \* "Indice Reajuste"                  line 48
    taxa_desc,    \* "Taxa Desconto p/ VPL (% a.a.)"    line 51
    idx_series,   \* what fetch_index returns for the chosen index (line 94)
    fase,         \* "parado" (st.stop at line 56), "feito" (ran to the end),
                  \* "erro" (the run raised)
    res           \* the values the run computed (lines 59-163)

inputs == <<valor, entrada, juros_ano, prazo_fin, modelo_fin, iof_pct,
            seguro_pct, prazo_cons, idx_choice, taxa_desc, idx_series>>
vars == <<valor, entrada, juros_ano, prazo_fin, modelo_fin, iof_pct,
          seguro_pct, prazo_cons, idx_choice, taxa_desc, idx_series, fase, res>>

---------------------------------------------------------------------------
(* Exact rational arithmetic *)

Abs(a) == IF a < 0 THEN -a ELSE a

RECURSIVE GCD(_, _)
GCD(a, b) == IF b = 0 THEN a ELSE GCD(b, a % b)

\* n/d in lowest terms, d > 0 (d # 0 required)
Q(n, d) ==
    LET g == GCD(Abs(n), Abs(d))
        s == IF d < 0 THEN -1 ELSE 1
    IN  <<(s * n) \div g, (s * d) \div g>>

Zero == Q(0, 1)
One == Q(1, 1)
RInt(i) == Q(i, 1)

RAdd(x, y) ==
    LET g == GCD(x[2], y[2])
    IN  Q(x[1] * (y[2] \div g) + y[1] * (x[2] \div g), (x[2] \div g) * y[2])

RNeg(x) == <<-x[1], x[2]>>
RSub(x, y) == RAdd(x, RNeg(y))

RMul(x, y) ==
    LET g1 == GCD(Abs(x[1]), y[2])
        g2 == GCD(Abs(y[1]), x[2])
    IN  Q((x[1] \div g1) * (y[1] \div g2), (x[2] \div g2) * (y[2] \div g1))

\* 1/x, x # 0
RInv(x) == IF x[1] < 0 THEN <<-x[2], -x[1]>> ELSE <<x[2], x[1]>>
\* x / y, y # 0
RDiv(x, y) == RMul(x, RInv(y))

\* x ** k for an integer k >= 0, by repeated squaring; 0 ** 0 = 1 as in Python
RECURSIVE PowNat(_, _)
PowNat(x, k) ==
    IF k = 0 THEN One
    ELSE LET h == PowNat(x, k \div 2)
             h2 == RMul(h, h)
         IN  IF k % 2 = 0 THEN h2 ELSE RMul(h2, x)

\* x ** k for an integer k (x # 0 when k < 0)
RPow(x, k) == IF k < 0 THEN RInv(PowNat(x, -k)) ELSE PowNat(x, k)

RSign(x) == IF x[1] > 0 THEN 1 ELSE IF x[1] < 0 THEN -1 ELSE 0
RLt(x, y) == RSign(RSub(x, y)) < 0
RLe(x, y) == RSign(RSub(x, y)) <= 0

\* the sum of s[lo..hi], halving the range (the arithmetic is exact, so the
\* order of the additions does not change the sum)
RECURSIVE SumRange(_, _, _)
SumRange(s, lo, hi) ==
    IF lo > hi THEN Zero
    ELSE IF lo = hi THEN s[lo]
    ELSE LET mid == (lo + hi) \div 2
         IN  RAdd(SumRange(s, lo, mid), SumRange(s, mid + 1, hi))

\* sum(s) of a sequence of rationals
RSum(s) == SumRange(s, 1, Len(s))

\* the product of s[lo..hi]
RECURSIVE ProdRange(_, _, _)
ProdRange(s, lo, hi) ==
    IF lo > hi THEN One
    ELSE IF lo = hi THEN s[lo]
    ELSE LET mid == (lo + hi) \div 2
         IN  RMul(ProdRange(s, lo, mid), ProdRange(s, mid + 1, hi))

\* s.prod() of a sequence of rationals
RProd(s) == ProdRange(s, 1, Len(s))

Max(a, b) == IF a >= b THEN a ELSE b

---------------------------------------------------------------------------
(* Annual percentages *)

\* the percentage a.a. whose monthly growth factor is q: 100 * (q^12 - 1)
Pct12(q) == [k |-> "pct12", b |-> q]

\* 1 + p/100 for an annual percentage p: the twelfth power of p.b
AnnualFactor(p) == [k |-> "pow12", b |-> p.b]

\* x ** (1/12) of a twelfth power
Root12(x) == x.b

\* (1 + p/100)**(1/12) - 1
MonthlyRate(p) == RSub(Root12(AnnualFactor(p)), One)

---------------------------------------------------------------------------
(* 1) Financiamento, lines 59-83 *)

\* PV = valor - entrada
PV(v, e) == RSub(v, e)

\* r_mens = (1 + juros_ano/100)**(1/12) - 1
r_mens(j) == MonthlyRate(j)

\* mutant of PriceDivisor: the exponent is n_fin, not -n_fin
PriceDivisor_mutante(r, n) == RSub(One, RPow(RAdd(One, r), n))

\* 1 - (1 + r_mens)**(-n_fin), the divisor of A_price
PriceDivisor(r, n) == RSub(One, RPow(RAdd(One, r), -n))

\* A_price = PV * r_mens / (1 - (1 + r_mens)**(-n_fin)); the divisor is not 0
A_price(pv, r, n) == RDiv(RMul(pv, r), PriceDivisor(r, n))

\* one pass of the Price loop body: j, am, bal -= am, Parcela = A_price
PriceStep(p, r, A) ==
    LET j == RMul(p.bal, r)
        am == RSub(A, j)
    IN  [bal |-> RSub(p.bal, am), am |-> Append(p.am, am),
         Parcela |-> Append(p.Parcela, A)]

\* the Price loop over meses_fin = 1..n_fin: the final bal, the am of each
\* month and the column df_price["Parcela"]
PriceLoop(pv, r, A, n) ==
    LET st[m \in 0..n] ==
            IF m = 0 THEN [bal |-> pv, am |-> <<>>, Parcela |-> <<>>]
            ELSE PriceStep(st[m - 1], r, A)
    IN  st[n]

\* amort = PV / n_fin
amort(pv, n) == RDiv(pv, RInt(n))

\* mutant of SacStep: the balance is reduced by the whole payment
SacStep_mutante(p, r, am) ==
    LET j == RMul(p.bal, r)
        pmt == RAdd(am, j)
    IN  [bal |-> RSub(p.bal, pmt), antes |-> Append(p.antes, p.bal),
         Parcela |-> Append(p.Parcela, pmt)]

\* one pass of the SAC loop body: j, pmt, bal -= amort, Parcela = pmt
SacStep(p, r, am) ==
    LET j == RMul(p.bal, r)
        pmt == RAdd(am, j)
    IN  [bal |-> RSub(p.bal, am), antes |-> Append(p.antes, p.bal),
         Parcela |-> Append(p.Parcela, pmt)]

\* the SAC loop over meses_fin: the final bal, the bal before each month and
\* the column df_sac["Parcela"]
SacLoop(pv, r, am, n) ==
    LET st[m \in 0..n] ==
            IF m = 0 THEN [bal |-> pv, antes |-> <<>>, Parcela |-> <<>>]
            ELSE SacStep(st[m - 1], r, am)
    IN  st[n]

\* df_fin = df_price if modelo_fin == "Price" else df_sac
df_fin(modelo, price, sac) == IF modelo = "Price" THEN price ELSE sac

---------------------------------------------------------------------------
(* 2) Consorcio, lines 86-100 *)

\* the markup of admin 20% and reserve 3%: the literal 1.23
Markup == Q(123, 100)

\* base_cons = valor * 1.23 / prazo_cons
base_cons(v, n) == RDiv(RMul(v, Markup), RInt(n))

\* last12 = idx_series[-12:]: the last 12 entries, or all when there are fewer
last12(s) == SubSeq(s, Max(1, Len(s) - 11), Len(s))

\* fator_anual: 1.05, or the product of last12
fator_anual(choice, s) ==
    IF choice = "Fixo 5%" THEN Q(105, 100) ELSE RProd(last12(s))

\* mutant of factors: the block of month m is m//12
factors_mutante(f, n) == [m \in 1..n |-> RPow(f, m \div 12)]

\* factors = [fator_anual ** ((m-1)//12) for m in range(1, prazo_cons+1)]
factors(f, n) == [m \in 1..n |-> RPow(f, (m - 1) \div 12)]

\* mutant of parc_cons: the base is divided by the factor
parc_cons_mutante(base, fs) == [m \in 1..Len(fs) |-> RDiv(base, fs[m])]

\* parc_cons = [base_cons * f for f in factors]
parc_cons(base, fs) == [m \in 1..Len(fs) |-> RMul(base, fs[m])]

---------------------------------------------------------------------------
(* 3) Total pago and 4) cash flows, lines 103-117 *)

\* total_fin = df_fin["Parcela"].sum() + entrada
total_fin(df, e) == RAdd(RSum(df), e)

\* total_cons = df_cons["Parcela"].sum()
total_cons(df) == RSum(df)

\* [ first ] + [-p for p in df]
CashFlow(first, df) == <<first>> \o [m \in 1..Len(df) |-> RNeg(df[m])]

\* cf += [0]*(L-len(cf))
PadTo(cf, L) == cf \o [t \in 1..(L - Len(cf)) |-> Zero]

---------------------------------------------------------------------------
(* 5) VPL, TIR and CET, lines 130-163 *)

\* mutant of NPV: the flows are compounded, not discounted
NPV_mutante(cf, r, L) ==
    RSum([u \in 1..L |-> RMul(cf[u], RPow(RAdd(One, r), u - 1))])

\* sum(cf[t]/((1+r_desc)**t) for t in range(L)); cf[t] is cf[t+1] here
NPV(cf, r, L) ==
    RSum([u \in 1..L |-> RDiv(cf[u], RPow(RAdd(One, r), u - 1))])

NaN == [k |-> "nan"]
None == [k |-> "None"]
Num(q) == [k |-> "num", v |-> q]

\* nf.irr(cf): nan when the flow has no sign change (no positive real root of
\* the polynomial); otherwise the rate that zeroes the NPV, which is 0 exactly
\* when the flow sums to 0 and is otherwise kept as "the root of cf"
irr(cf) ==
    LET pos == \E t \in 1..Len(cf) : RSign(cf[t]) > 0
        neg == \E t \in 1..Len(cf) : RSign(cf[t]) < 0
    IN  IF ~(pos /\ neg) THEN NaN
        ELSE IF RSum(cf) = Zero THEN Num(Zero)
        ELSE [k |-> "root", cf |-> cf]

\* Python truth of a float: false only for 0.0 (nan is true)
Truthy(x) == IF x.k = "num" THEN x.v # Zero ELSE x.k # "None"

\* (1+i)**12 - 1 if i else None; the annualised value is kept as
\* [k |-> "anual", i |-> i], and is nan when i is
tir(i) ==
    IF Truthy(i) THEN (IF i.k = "nan" THEN NaN ELSE [k |-> "anual", i |-> i])
    ELSE None

\* f"{t*100:.2f}%" if t else the dash: "dash" is the dash, "nan%" what
\* the format gives for nan, "%" the percentage of t
metric(t) ==
    IF Truthy(t) THEN (IF t.k = "nan" THEN [k |-> "nan%"]
                       ELSE [k |-> "%", de |-> t])
    ELSE [k |-> "dash"]

\* iof_amt = PV * iof_pct/100
iof_amt(pv, iof) == RDiv(RMul(pv, iof), RInt(100))

\* pv_net = PV - iof_amt
pv_net(pv, iof) == RSub(pv, iof_amt(pv, iof))

\* mutant of mensal_seg: the annual insurance is charged every month
mensal_seg_mutante(pv, seg) == RMul(pv, RDiv(seg, RInt(100)))

\* mensal_seg = PV * (seguro_pct/100)/12
mensal_seg(pv, seg) == RDiv(RMul(pv, RDiv(seg, RInt(100))), RInt(12))

\* cf_cet_fin = [ pv_net ] + [ -(Parcela[m] + mensal_seg) for m in meses_fin ]
cf_cet_fin(net, df, seg, n) ==
    <<net>> \o [m \in 1..n |-> RNeg(RAdd(df[m], seg))]

\* pv_cons_net = valor * (1 - 0.20 - 0.03)
pv_cons_net(v) == RMul(v, RSub(RSub(One, Q(20, 100)), Q(3, 100)))

\* cf_cet_cons = [ pv_cons_net ] + [ -p for p in df_cons["Parcela"] ]
cf_cet_cons(net, df) == CashFlow(net, df)

---------------------------------------------------------------------------
(* The run of the script after "Calcular", lines 59-163 *)

\* every value the run binds, from the widget values and the fetched series
Resultado(v, e, j, n, modelo, iof, seg, nc, choice, td, s) ==
    LET pv == PV(v, e)
        r == r_mens(j)
        A == A_price(pv, r, n)
        price == PriceLoop(pv, r, A, n)
        am == amort(pv, n)
        sac == SacLoop(pv, r, am, n)
        fin == df_fin(modelo, price.Parcela, sac.Parcela)
        base == base_cons(v, nc)
        fa == fator_anual(choice, s)
        fs == factors(fa, nc)
        cons == parc_cons(base, fs)
        L == Max(n + 1, nc + 1)
        cff == PadTo(CashFlow(pv, fin), L)
        cfc == PadTo(CashFlow(v, cons), L)
        rd == MonthlyRate(td)
        i_fin == irr(cff)
        i_cons == irr(cfc)
        t_fin == tir(i_fin)
        t_cons == tir(i_cons)
        net == pv_net(pv, iof)
        ms == mensal_seg(pv, seg)
        cetf == cf_cet_fin(net, fin, ms, n)
        ci == irr(cetf)
        cf_ == tir(ci)
        cnet == pv_cons_net(v)
        cetc == cf_cet_cons(cnet, cons)
        ci2 == irr(cetc)
        cc == tir(ci2)
    IN  [PV |-> pv, r_mens |-> r, n_fin |-> n, A_price |-> A,
         bal_price |-> price.bal, am_price |-> price.am,
         df_price |-> price.Parcela,
         amort |-> am, bal_sac |-> sac.bal, antes_sac |-> sac.antes,
         df_sac |-> sac.Parcela, df_fin |-> fin,
         base_cons |-> base,
         serie |-> IF choice = "Fixo 5%" THEN <<>> ELSE s,
         last12 |-> IF choice = "Fixo 5%" THEN <<>> ELSE last12(s),
         fator_anual |-> fa, factors |-> fs, df_cons |-> cons,
         total_fin |-> total_fin(fin, e), total_cons |-> total_cons(cons),
         L |-> L, cf_fin |-> cff, cf_cons |-> cfc,
         r_desc |-> rd, npv_fin |-> NPV(cff, rd, L), npv_cons |-> NPV(cfc, rd, L),
         irr_fin |-> i_fin, irr_cons |-> i_cons,
         tir_fin |-> t_fin, tir_cons |-> t_cons,
         iof_amt |-> iof_amt(pv, iof), pv_net |-> net, mensal_seg |-> ms,
         cf_cet_fin |-> cetf, cet_irr |-> ci, cet_fin |-> cf_,
         pv_cons_net |-> cnet, cf_cet_cons |-> cetc, cet_irr2 |-> ci2,
         cet_cons |-> cc,
         c3 |-> metric(t_fin), c4 |-> metric(t_cons),
         c5 |-> metric(cf_), c6 |-> metric(cc)]

\* nothing computed: the run stopped at st.stop() (line 56)
Nada == [k |-> "nada"]

\* what an uncaught exception leaves: no value of lines 66-163
Excecao(nome) == [k |-> "erro", erro |-> nome]

---------------------------------------------------------------------------
(* Bounds and the values the widgets range over *)

\* The terms are bounded by TLC's 32-bit integers: a payment discounted over t
\* months at 1/20 or 1/25 has a denominator near 21^t * 25^t.
\* longest term (months) of either schedule when the discount rate varies
MaxPrazoVPL == 2
\* longest loan term (months) under a zero discount rate
MaxPrazoFin == 4
\* longest consortium term (months) under a zero discount rate
MaxPrazoCons == 25
\* most monthly observations the index provider returns
MaxObs == 13

Valores == {RInt(0), RInt(10)}
Entradas == {RInt(0), RInt(10), RInt(20)}
\* 0 %, 79.59 % and 60.10 % a.a.: monthly 0, 1/20 and 1/25
Taxas == {Pct12(One), Pct12(Q(21, 20)), Pct12(Q(26, 25))}
Modelos == {"Price", "SAC"}
IofPcts == {Zero, RInt(5)}
SeguroPcts == {Zero, RInt(6)}
Indices == {"Fixo 5%", "IPCA", "INPC", "IGP-M"}

\* a series of len monthly factors, all 1 but f at position pos (none when
\* pos = 0)
Serie(len, pos, f) == [i \in 1..len |-> IF i = pos THEN f ELSE One]

\* monthly factors: +5 %, -10 %
Fatores == {Q(21, 20), Q(9, 10)}

\* series of 1, 11, 12 and MaxObs observations, with the factor that is not 1
\* nowhere, first, second or last
Series ==
    {Serie(len, pos, f) : len \in {1, 11, 12, MaxObs}, pos \in {0, 1, 2},
                          f \in Fatores}
      \cup {Serie(len, len, f) : len \in {1, 11, 12, MaxObs}, f \in Fatores}

---------------------------------------------------------------------------
(* Actions *)

\* a widget changed: Streamlit reruns the script with calcular = False, which
\* stops at line 56
Rerun == fase' = "parado" /\ res' = Nada

AlterarValor ==
    /\ \E x \in Valores \ {valor} : valor' = x
    /\ Rerun
    /\ UNCHANGED <<entrada, juros_ano, prazo_fin, modelo_fin, iof_pct,
                   seguro_pct, prazo_cons, idx_choice, taxa_desc, idx_series>>

AlterarEntrada ==
    /\ \E x \in Entradas \ {entrada} : entrada' = x
    /\ Rerun
    /\ UNCHANGED <<valor, juros_ano, prazo_fin, modelo_fin, iof_pct,
                   seguro_pct, prazo_cons, idx_choice, taxa_desc, idx_series>>

AlterarJuros ==
    /\ \E x \in Taxas \ {juros_ano} : juros_ano' = x
    /\ Rerun
    /\ UNCHANGED <<valor, entrada, prazo_fin, modelo_fin, iof_pct,
                   seguro_pct, prazo_cons, idx_choice, taxa_desc, idx_series>>

AlterarPrazoFin(max) ==
    /\ \E x \in (1..max) \ {prazo_fin} : prazo_fin' = x
    /\ Rerun
    /\ UNCHANGED <<valor, entrada, juros_ano, modelo_fin, iof_pct,
                   seguro_pct, prazo_cons, idx_choice, taxa_desc, idx_series>>

AlterarModelo ==
    /\ \E x \in Modelos \ {modelo_fin} : modelo_fin' = x
    /\ Rerun
    /\ UNCHANGED <<valor, entrada, juros_ano, prazo_fin, iof_pct,
                   seguro_pct, prazo_cons, idx_choice, taxa_desc, idx_series>>

AlterarIof ==
    /\ \E x \in IofPcts \ {iof_pct} : iof_pct' = x
    /\ Rerun
    /\ UNCHANGED <<valor, entrada, juros_ano, prazo_fin, modelo_fin,
                   seguro_pct, prazo_cons, idx_choice, taxa_desc, idx_series>>

AlterarSeguro ==
    /\ \E x \in SeguroPcts \ {seguro_pct} : seguro_pct' = x
    /\ Rerun
    /\ UNCHANGED <<valor, entrada, juros_ano, prazo_fin, modelo_fin,
                   iof_pct, prazo_cons, idx_choice, taxa_desc, idx_series>>

AlterarPrazoCons(max) ==
    /\ \E x \in (1..max) \ {prazo_cons} : prazo_cons' = x
    /\ Rerun
    /\ UNCHANGED <<valor, entrada, juros_ano, prazo_fin, modelo_fin,
                   iof_pct, seguro_pct, idx_choice, taxa_desc, idx_series>>

AlterarIndice ==
    /\ \E x \in Indices \ {idx_choice} : idx_choice' = x
    /\ Rerun
    /\ UNCHANGED <<valor, entrada, juros_ano, prazo_fin, modelo_fin,
                   iof_pct, seguro_pct, prazo_cons, taxa_desc, idx_series>>

AlterarTaxaDesc ==
    /\ \E x \in Taxas \ {taxa_desc} : taxa_desc' = x
    /\ Rerun
    /\ UNCHANGED <<valor, entrada, juros_ano, prazo_fin, modelo_fin,
                   iof_pct, seguro_pct, prazo_cons, idx_choice, idx_series>>

\* the "Calcular" button: the script runs from line 59 to the end, or raises
\* at line 65 when the divisor of A_price is 0.0
Calcular ==
    /\ IF PriceDivisor(r_mens(juros_ano), prazo_fin) = Zero
       THEN /\ fase' = "erro"
            /\ res' = Excecao("ZeroDivisionError")
       ELSE /\ fase' = "feito"
            /\ res' = Resultado(valor, entrada, juros_ano, prazo_fin,
                                modelo_fin, iof_pct, seguro_pct, prazo_cons,
                                idx_choice, taxa_desc, idx_series)
    /\ UNCHANGED inputs

---------------------------------------------------------------------------
(* Specifications *)

\* every widget varies; both terms run to MaxPrazoVPL
Init ==
    /\ valor \in Valores
    /\ entrada \in Entradas
    /\ juros_ano \in Taxas
    /\ prazo_fin \in 1..MaxPrazoVPL
    /\ modelo_fin \in Modelos
    /\ iof_pct \in IofPcts
    /\ seguro_pct \in SeguroPcts
    /\ prazo_cons \in 1..MaxPrazoVPL
    /\ idx_choice \in Indices
    /\ taxa_desc \in Taxas
    /\ idx_series = Serie(12, 1, Q(21, 20))
    /\ fase = "parado"
    /\ res = Nada

Next ==
    \/ AlterarValor
    \/ AlterarEntrada
    \/ AlterarJuros
    \/ AlterarPrazoFin(MaxPrazoVPL)
    \/ AlterarModelo
    \/ AlterarIof
    \/ AlterarSeguro
    \/ AlterarPrazoCons(MaxPrazoVPL)
    \/ AlterarIndice
    \/ AlterarTaxaDesc
    \/ Calcular

Spec == Init /\ [][Next]_vars

\* the loan: its widgets vary, the loan term runs to MaxPrazoFin; the
\* consortium is one fixed-adjustment month and nothing is discounted
InitFin ==
    /\ valor \in Valores
    /\ entrada \in Entradas
    /\ juros_ano \in Taxas
    /\ prazo_fin \in 1..MaxPrazoFin
    /\ modelo_fin \in Modelos
    /\ iof_pct \in IofPcts
    /\ seguro_pct \in SeguroPcts
    /\ prazo_cons = 1
    /\ idx_choice = "Fixo 5%"
    /\ taxa_desc = Pct12(One)
    /\ idx_series = Serie(12, 0, One)
    /\ fase = "parado"
    /\ res = Nada

NextFin ==
    \/ AlterarValor
    \/ AlterarEntrada
    \/ AlterarJuros
    \/ AlterarPrazoFin(MaxPrazoFin)
    \/ AlterarModelo
    \/ AlterarIof
    \/ AlterarSeguro
    \/ Calcular

SpecFin == InitFin /\ [][NextFin]_vars

\* the consortium: its widgets and the index series vary, the term runs to
\* MaxPrazoCons; the loan is one month and nothing is discounted
InitCons ==
    /\ valor \in Valores
    /\ entrada = RInt(0)
    /\ juros_ano = Pct12(Q(21, 20))
    /\ prazo_fin = 1
    /\ modelo_fin = "Price"
    /\ iof_pct = Zero
    /\ seguro_pct = Zero
    /\ prazo_cons \in 1..MaxPrazoCons
    /\ idx_choice \in Indices
    /\ taxa_desc = Pct12(One)
    /\ idx_series \in Series
    /\ fase = "parado"
    /\ res = Nada

NextCons ==
    \/ AlterarValor
    \/ AlterarPrazoCons(MaxPrazoCons)
    \/ AlterarIndice
    \/ Calcular

SpecCons == InitCons /\ [][NextCons]_vars

---------------------------------------------------------------------------
(* Properties *)

Feito == fase = "feito"

\* the annual factor of the run: the literal 1.05, or the one computed from
\* the index series
Fator == IF idx_choice = "Fixo 5%" THEN Q(105, 100) ELSE res.fator_anual

\* C1: the consortium schedule has exactly prazo_cons entries, indexed by the
\* months 1..prazo_cons, and the payment of month m is
\* valor * 1.23 / prazo_cons * f^((m-1) div 12), f being the annual factor
\* (1.05 or index-derived); for valor 500,000, term 200 and f = 1.05 the
\* payment is 3,075 in month 1 and 3,228.75 in month 13.
C1_ConsortiumSchedule ==
    /\ Feito =>
         /\ Len(res.df_cons) = prazo_cons
         /\ DOMAIN res.df_cons = 1..prazo_cons
         /\ \A m \in 1..prazo_cons :
              res.df_cons[m] =
                RMul(Q(valor[1] * 123, valor[2] * 100 * prazo_cons),
                     RPow(Fator, (m - 1) \div 12))
    /\ LET ex == parc_cons(base_cons(RInt(500000), 200),
                           factors(fator_anual("Fixo 5%", <<>>), 13))
       IN  ex[1] = RInt(3075) /\ ex[12] = RInt(3075) /\ ex[13] = Q(322875, 100)

\* C1 witness: a run with a term of 25 months or more, whose payment of month
\* 25 is that of month 1 times 1.05^2
C1_Witness ==
    /\ Feito
    /\ idx_choice = "Fixo 5%"
    /\ prazo_cons >= 25
    /\ valor = RInt(10)
    /\ res.df_cons[1] = Q(123, 10 * prazo_cons)
    /\ res.df_cons[25] = RMul(res.df_cons[1], Q(11025, 10000))

NonDecreasing(df) ==
    \A m \in 1..(Len(df) - 1) : RLe(df[m], df[m + 1])

\* C9 as stated: for every annual factor >= 1 the payments are non-decreasing,
\* equal within a 12-month block (month 12 = month 1) and step up at the
\* block boundary (month 13 > month 1 whenever the term reaches month 13).
C9_Original ==
    (Feito /\ RLe(One, Fator)) =>
        /\ NonDecreasing(res.df_cons)
        /\ prazo_cons >= 12 => res.df_cons[12] = res.df_cons[1]
        /\ prazo_cons >= 13 => RLt(res.df_cons[1], res.df_cons[13])

\* C9 amended: for every annual factor >= 1 the payments are non-decreasing
\* and equal within each 12-month block; at a block boundary the payment
\* steps up strictly when the factor is > 1 and the total value is > 0, and
\* stays equal when the factor is 1 or the total value is 0.
C9_ConsortiumMonotone ==
    (Feito /\ RLe(One, Fator)) =>
        /\ NonDecreasing(res.df_cons)
        /\ prazo_cons >= 12 => res.df_cons[12] = res.df_cons[1]
        /\ \A m \in 1..(prazo_cons - 1) :
             /\ m % 12 # 0 => res.df_cons[m + 1] = res.df_cons[m]
             /\ (m % 12 = 0 /\ RLt(One, Fator) /\ RLt(Zero, valor))
                  => RLt(res.df_cons[m], res.df_cons[m + 1])
             /\ (m % 12 = 0 /\ (Fator = One \/ valor = Zero))
                  => res.df_cons[m + 1] = res.df_cons[m]

\* C9 witness: an index-derived factor > 1, a positive total value and a term
\* that reaches month 25: two strict steps
C9_Witness ==
    /\ Feito
    /\ idx_choice # "Fixo 5%"
    /\ RLt(One, res.fator_anual)
    /\ prazo_cons >= 25
    /\ RLt(res.df_cons[12], res.df_cons[13])
    /\ RLt(res.df_cons[24], res.df_cons[25])

\* C2: under SAC, for every principal P >= 0, term n and monthly rate r, the
\* amortization is the constant P/n, the payment of month m is (balance
\* before month m) * r + P/n, the balance before month m is P - (m-1)*P/n
\* and is 0 after month n, and the payments are non-increasing month over
\* month when r > 0.  The loop is checked on the widget values of every
\* state, rate 0 included, and a finished run holds exactly its values.
C2_SacSchedule ==
    RLe(Zero, RSub(valor, entrada)) =>
        LET P == RSub(valor, entrada)
            n == prazo_fin
            r == MonthlyRate(juros_ano)
            a == Q(P[1], P[2] * n)
            sac == SacLoop(P, r, amort(P, n), n)
        IN  /\ amort(P, n) = a
            /\ Len(sac.Parcela) = n
            /\ \A m \in 1..n :
                 /\ sac.antes[m] = RSub(P, RMul(RInt(m - 1), a))
                 /\ sac.Parcela[m] = RAdd(RMul(sac.antes[m], r), a)
            /\ \A m \in 1..(n - 1) : sac.antes[m + 1] = RSub(sac.antes[m], a)
            /\ sac.bal = Zero
            /\ RLt(Zero, r) =>
                 \A m \in 1..(n - 1) : RLe(sac.Parcela[m + 1], sac.Parcela[m])
            /\ r = Zero => \A m \in 1..n : sac.Parcela[m] = a
            /\ Feito =>
                 /\ res.amort = a
                 /\ res.df_sac = sac.Parcela
                 /\ res.antes_sac = sac.antes
                 /\ res.bal_sac = sac.bal

\* C2 witness: a SAC run of 3 months or more with a positive principal and a
\* positive rate, whose payments fall from each month to the next
C2_Witness ==
    /\ Feito
    /\ modelo_fin = "SAC"
    /\ prazo_fin >= 3
    /\ RLt(Zero, res.PV)
    /\ RLt(Zero, res.r_mens)
    /\ res.df_fin = res.df_sac
    /\ RLt(res.df_sac[2], res.df_sac[1])
    /\ RLt(res.df_sac[3], res.df_sac[2])
    /\ res.bal_sac = Zero

\* C3: under Price, for any principal P, rate r > 0 and term n, every month's
\* payment is the constant A = P*r/(1-(1+r)^(-n)), and the loop (interest =
\* balance*r, amortization = A - interest, balance -= amortization) over the
\* months 1..n yields amortizations that sum to P and a final balance of 0.
C3_PriceSchedule ==
    (Feito /\ RLt(Zero, MonthlyRate(juros_ano))) =>
        LET P == RSub(valor, entrada)
            n == prazo_fin
            r == MonthlyRate(juros_ano)
            A == RDiv(RMul(P, r), RSub(One, RInv(RPow(RAdd(One, r), n))))
        IN  /\ Len(res.df_price) = n
            /\ \A m \in 1..n : res.df_price[m] = A
            /\ Len(res.am_price) = n
            /\ RSum(res.am_price) = P
            /\ res.bal_price = Zero

\* C3 witness: a Price run of 3 months or more with a positive principal,
\* whose amortizations grow month over month and sum to the principal
C3_Witness ==
    /\ Feito
    /\ modelo_fin = "Price"
    /\ prazo_fin >= 3
    /\ RLt(Zero, res.PV)
    /\ res.df_fin = res.df_price
    /\ RLt(res.am_price[1], res.am_price[2])
    /\ RLt(res.am_price[2], res.am_price[3])
    /\ RSum(res.am_price) = res.PV
    /\ res.bal_price = Zero

\* C4 as stated: with an annual loan rate of 0 the run does not divide by
\* zero: the constant payment is principal / term and the run produces its
\* outputs.
C4_ZeroRateRuns ==
    (juros_ano = Pct12(One) /\ fase # "parado") =>
        /\ fase = "feito"
        /\ res.A_price = RDiv(res.PV, RInt(prazo_fin))

\* the four IRR-based metrics: the monthly IRR and what is displayed
Metricas ==
    {<<res.irr_fin, res.c3>>, <<res.irr_cons, res.c4>>,
     <<res.cet_irr, res.c5>>, <<res.cet_irr2, res.c6>>}

\* C5 as stated: each of TIR Fin., TIR Cons., CET Fin., CET Cons. shows the
\* dash exactly when the IRR is not found, never a not-a-number percentage,
\* and whenever a monthly IRR i is found (i = 0 included) it shows the
\* annualized rate (1+i)^12 - 1.
C5_MetricDisplay ==
    Feito =>
        \A x \in Metricas :
            /\ (x[2].k = "dash") <=> (x[1].k = "nan")
            /\ x[2].k # "nan%"
            /\ x[1].k # "nan" => (x[2].k = "%" /\ x[2].de.i = x[1])

\* C6 as stated: with an index selected and fewer than 12 monthly
\* observations the run ends in InsufficientIndexData and no consortium
\* schedule is generated; the annual factor is never the product of fewer
\* than 12 monthly factors.
C6_InsufficientIndexData ==
    /\ (idx_choice # "Fixo 5%" /\ Len(idx_series) < 12 /\ fase # "parado") =>
          (fase = "erro" /\ res.erro = "InsufficientIndexData")
    /\ (Feito /\ idx_choice # "Fixo 5%") => Len(res.last12) = 12

\* C7 as stated: every run that reaches the amortization step has principal
\* >= 0, term >= 1 and rate >= 0; a down payment larger than the total value
\* gives an InvalidParameter error, not schedules and metrics.
C7_ParametersValidated ==
    /\ Feito =>
          /\ RLe(Zero, res.PV)
          /\ res.n_fin >= 1
          /\ RLe(Zero, res.r_mens)
    /\ (RLt(valor, entrada) /\ fase # "parado") =>
          (fase = "erro" /\ res.erro = "InvalidParameter")

\* the monthly discount rates of the annual rates the widget ranges over
TaxasMensais == {MonthlyRate(t) : t \in Taxas}

\* an initial inflow followed by outflows
InflowThenOutflows(cf) ==
    /\ RLt(Zero, cf[1])
    /\ \A t \in 2..Len(cf) : RLe(cf[t], Zero)

\* the cash flows the run discounts
Fluxos == {res.cf_fin, res.cf_cons}

\* C8 as stated: for a cash flow with an initial inflow followed by outflows
\* (cf_fin, cf_cons) and all discount rates 0 <= r1 < r2,
\* NPV(cf, r2) <= NPV(cf, r1).
C8_Original ==
    Feito =>
        \A cf \in Fluxos :
            InflowThenOutflows(cf) =>
                \A r1, r2 \in TaxasMensais :
                    RLt(r1, r2) => RLe(NPV(cf, r2, res.L), NPV(cf, r1, res.L))

\* C8 amended: npv_fin and npv_cons are sum(cf[t] / (1+r_desc)^t), and for a
\* cash flow with an initial inflow followed by outflows the NPV is
\* monotonically non-decreasing in the discount rate: for 0 <= r1 < r2,
\* NPV(cf, r2) >= NPV(cf, r1), strictly greater when some outflow is not 0.
C8_NpvMonotone ==
    Feito =>
        /\ res.npv_fin = NPV(res.cf_fin, MonthlyRate(taxa_desc), res.L)
        /\ res.npv_cons = NPV(res.cf_cons, MonthlyRate(taxa_desc), res.L)
        /\ RLt(Zero, MonthlyRate(taxa_desc)) =>
             \A x \in {<<res.cf_fin, res.npv_fin>>, <<res.cf_cons, res.npv_cons>>} :
                InflowThenOutflows(x[1]) => RLe(RSum(x[1]), x[2])
        /\ \A cf \in Fluxos :
             InflowThenOutflows(cf) =>
                \A r1, r2 \in TaxasMensais :
                    RLt(r1, r2) =>
                        /\ RLe(NPV(cf, r1, res.L), NPV(cf, r2, res.L))
                        /\ (\E t \in 2..Len(cf) : cf[t] # Zero) =>
                              RLt(NPV(cf, r1, res.L), NPV(cf, r2, res.L))

\* C8 witness: a run with a positive discount rate whose loan and consortium
\* flows are an inflow followed by outflows and whose NPVs exceed the plain
\* sums of the flows (the NPVs at rate 0)
C8_Witness ==
    /\ Feito
    /\ RLt(Zero, res.r_desc)
    /\ prazo_fin >= 2
    /\ prazo_cons >= 2
    /\ InflowThenOutflows(res.cf_fin)
    /\ InflowThenOutflows(res.cf_cons)
    /\ RLt(RSum(res.cf_fin), res.npv_fin)
    /\ RLt(RSum(res.cf_cons), res.npv_cons)

\* C10: the CET cash flows are built from the schedules and leave them as
\* generated: the loan flow has n_fin + 1 entries, entry 0 = PV - PV*iof/100
\* and entry m = -(payment of month m + PV*(seguro/100)/12); the consortium
\* flow has entry 0 = valor*(1 - 0.20 - 0.03), not the face value, and entry
\* m = the negated consortium payment of month m.
C10_CetCashFlows ==
    Feito =>
        LET P == RSub(valor, entrada)
            sched == IF modelo_fin = "Price" THEN res.df_price ELSE res.df_sac
        IN  /\ res.df_fin = sched
            /\ Len(res.df_fin) = prazo_fin
            /\ Len(res.df_cons) = prazo_cons
            /\ Len(res.cf_cet_fin) = prazo_fin + 1
            /\ res.cf_cet_fin[1] = RSub(P, RDiv(RMul(P, iof_pct), RInt(100)))
            /\ \A m \in 1..prazo_fin :
                 res.cf_cet_fin[m + 1] =
                   RNeg(RAdd(sched[m], RDiv(RMul(P, seguro_pct), RInt(1200))))
            /\ Len(res.cf_cet_cons) = prazo_cons + 1
            /\ res.cf_cet_cons[1] = RMul(valor, Q(77, 100))
            /\ valor # Zero => res.cf_cet_cons[1] # valor
            /\ \A m \in 1..prazo_cons :
                 res.cf_cet_cons[m + 1] = RNeg(res.df_cons[m])

\* C10 witness: a run with IOF and insurance set, a positive principal and
\* two months or more on each side: the loan flow starts below the principal
\* and its outflows exceed the payments
C10_Witness ==
    /\ Feito
    /\ iof_pct # Zero
    /\ seguro_pct # Zero
    /\ prazo_fin >= 2
    /\ prazo_cons >= 2
    /\ RLt(Zero, res.PV)
    /\ RLt(res.cf_cet_fin[1], res.PV)
    /\ RLt(res.cf_cet_fin[2], RNeg(res.df_fin[1]))
    /\ RLt(res.cf_cet_cons[1], valor)
    /\ res.cf_cet_cons[3] = RNeg(res.df_cons[2])

===========================================================================
